---- MODULE Spec2Model ----
(***************************************************************************)
(* Model of 2-mmio-trap/csrc/nyancat-huffman.c: the bit stream reader, the *)
(* Huffman opcode decoder, the Delta-RLE frame reconstructor and the       *)
(* boundary scan / frame loop of main.                                     *)
(*                                                                         *)
(* The header nyancat-huffman.h (huffman_table, huffman_compressed_data,   *)
(* HUFFMAN_BITSTREAM_LEN) is data supplied to the program: the model draws *)
(* it from bounded sets in Init.                                           *)
(***************************************************************************)
EXTENDS Integers, Sequences, FiniteSets, TLC

VARIABLES
    \* ---- data of nyancat-huffman.h
    huffman_table,            \* sequence of [code, code_len, opcode]
    huffman_compressed_data,  \* sequence of bytes (index 0 of C is index 1 here)
    HUFFMAN_BITSTREAM_LEN,    \* total bit length of the payload
    \* ---- huffman_decompress_all_opcodes / huffman_decode_opcode
    bs,                       \* BitStream: [buffer, bits_available, data_pos]
    current_code, code_len,   \* locals of huffman_decode_opcode
    opcodes_buffer,           \* the opcodes stored so far (entries 0..opcode_count-1)
    opcode_count, bits_read,  \* locals of huffman_decompress_all_opcodes
    hpc,                      \* position in huffman_decompress_all_opcodes
    bit_reads,                \* calls of bitstream_read_bit since bitstream_init
    \* ---- decompress_frame: its parameters and locals, the two static frame
    \* buffers, its position, and the index ranges its last step wrote
    dec,
    \* ---- a second run of decompress_frame that dec is compared with: run
    \* side by side (SpecPair, SpecSuffix) or the finished first pass (SpecTwice)
    twin,
    \* ---- main
    vga_id,                   \* the value read from VGA_ID
    total_opcodes,
    frame_starts,             \* int frame_starts[13]: index k is element k + 1
    frame_count,
    scan_i,                   \* the i of the boundary scan
    frame,                    \* the frame of the decode loop, then of the animation
    vga,                      \* display registers: [ctrl, upload_addr, uploads]
    mpc,                      \* position in main
    \* ---- the callers of decompress_frame (main, SpecCalls)
    calls                     \* the calls they made so far: [frame_index, opcodes]

hvars == <<huffman_table, huffman_compressed_data, HUFFMAN_BITSTREAM_LEN, bs,
           current_code, code_len, opcodes_buffer, opcode_count, bits_read,
           hpc, bit_reads>>

mvars == <<vga_id, total_opcodes, frame_starts, frame_count, scan_i, frame,
           vga, mpc, calls>>

vars == <<hvars, dec, twin, mvars>>

(***************************************************************************)
(* Program constants                                                       *)
(***************************************************************************)
FRAME_SIZE == 4096
FRAME_COUNT == 12
OPCODES_CAPACITY == 8192
\* Variant: the decoder's length cap off by one.
MAX_CODE_LEN_OffByOne == 16 + 1
MAX_CODE_LEN == 16
AVG_CODE_BITS == 6
EARLY_BREAK_COUNT == 4000
ERROR_OPCODE == 255

(***************************************************************************)
(* Bounds of the model                                                     *)
(***************************************************************************)
MaxBits == 20
MaxTail == 2
MaxCalls == 2

(***************************************************************************)
(* Input sets                                                              *)
(***************************************************************************)
\* Byte values payloads are built from: 00000000, 11111111, 10100110, 01011100.
ByteAlphabet == {0, 255, 166, 92}

Entry(c, l, o) == [code |-> c, code_len |-> l, opcode |-> o]

\* A complete prefix-free table: 1, 01, 001, 000.
TableShort == <<Entry(1, 1, 5), Entry(1, 2, 35), Entry(1, 3, 255), Entry(0, 3, 18)>>
\* A prefix-free table with a 16-bit codeword and unassigned prefixes (110...).
TableLong == <<Entry(65535, 16, 64), Entry(0, 1, 34), Entry(2, 2, 95),
               Entry(14, 4, 1)>>
\* Not prefix-free: 1 is a prefix of 11; nothing starts with 0.
TableAmbiguous == <<Entry(3, 2, 48), Entry(1, 1, 16)>>
\* No entry matches any prefix of 0xFF 0xFF or 0x00 0x00.
TableSparse == <<Entry(5, 3, 33)>>

Tables == {TableShort, TableLong, TableAmbiguous, TableSparse}

CeilDiv(a, b) == (a + b - 1) \div b

Pow2(n) == 2 ^ n

\* decompress_frame is not running and the frame buffers are outside the
\* specification at hand.
NotCalled == [pc |-> "idle"]

VGA_MAGIC == 1447510321  \* 0x56474131

\* main is not running: the specification at hand is one call made on its own.
MainIdle ==
    /\ vga_id = VGA_MAGIC
    /\ total_opcodes = 0
    /\ frame_starts = <<>>
    /\ frame_count = 0
    /\ scan_i = 0
    /\ frame = 0
    /\ vga = [ctrl |-> 0, upload_addr |-> 0, uploads |-> <<>>]
    /\ mpc = "idle"
    /\ calls = <<>>

(***************************************************************************)
(* bitstream_init                                                          *)
(***************************************************************************)
bitstream_init == [buffer |-> 0, bits_available |-> 0, data_pos |-> 0]

\* The byte a refill fetches: data[data_pos].  Inside the payload it is the
\* payload byte; past its end the read is undefined and may yield any byte.
FetchSet(data, pos) ==
    IF pos >= 0 /\ pos < Len(data) THEN {data[pos + 1]} ELSE ByteAlphabet

\* After the refill test of bitstream_read_bit: the stream holding a byte.
Refill(b, byte) ==
    IF b.bits_available = 0
    THEN [buffer |-> byte, bits_available |-> 8, data_pos |-> b.data_pos + 1]
    ELSE b

\* Variant: the byte drained from its least significant bit.
ExtractBit_LowBit(buffer) == buffer % 2

\* Extract MSB: bit = (buffer >> 7) & 1.
ExtractBit(buffer) == (buffer \div 128) % 2

\* buffer <<= 1 (uint32_t); bits_available--.  The buffer is a byte shifted
\* left at most 8 times before the next refill replaces it, so it stays below
\* 2^16 and the 32-bit shift never wraps (BufferInRange below).
Shift(b) == [b EXCEPT !.buffer = b.buffer * 2,
                      !.bits_available = b.bits_available - 1]

\* Lookup in Huffman table: the first entry with this length and code, or 0.
Matches(tab, len, code) ==
    {i \in 1..Len(tab) : tab[i].code_len = len /\ tab[i].code = code}

Min(S) == CHOOSE x \in S : \A y \in S : x <= y
Max(S) == CHOOSE x \in S : \A y \in S : x >= y

\* Variant: the lookup compares the code value only, not its length.
Lookup_IgnoringLength(tab, len, code) ==
    LET m == {i \in 1..Len(tab) : tab[i].code = code}
    IN IF m = {} THEN 0 ELSE Min(m)

Lookup(tab, len, code) ==
    IF Matches(tab, len, code) = {} THEN 0 ELSE Min(Matches(tab, len, code))

\* current_code = (current_code << 1) | bit, as uint16_t.
ShiftIn(code, bit) == (code * 2 + bit) % Pow2(16)

(***************************************************************************)
(* huffman_decompress_all_opcodes                                          *)
(***************************************************************************)
HuffInit ==
    /\ huffman_table \in Tables
    /\ HUFFMAN_BITSTREAM_LEN \in 1..MaxBits
    /\ huffman_compressed_data \in
           [1..CeilDiv(HUFFMAN_BITSTREAM_LEN, 8) -> ByteAlphabet]
    /\ bs = bitstream_init
    /\ bit_reads = 0
    /\ current_code = 0
    /\ code_len = 0
    /\ opcodes_buffer = <<>>
    /\ opcode_count = 0
    /\ bits_read = 0
    /\ hpc = "loop"
    /\ dec = NotCalled
    /\ twin = NotCalled
    /\ MainIdle

\* Variant: the loop test without the capacity of opcodes_buffer.
LoopCond_WithoutCapacity == bits_read < HUFFMAN_BITSTREAM_LEN

\* while (bits_read < HUFFMAN_BITSTREAM_LEN && opcode_count < 8192)
LoopCond == bits_read < HUFFMAN_BITSTREAM_LEN /\ opcode_count < OPCODES_CAPACITY

\* The loop test succeeds: huffman_decode_opcode is entered.
CallDecode ==
    /\ hpc = "loop"
    /\ LoopCond
    /\ current_code' = 0
    /\ code_len' = 0
    /\ hpc' = "decode"
    /\ UNCHANGED <<huffman_table, huffman_compressed_data, HUFFMAN_BITSTREAM_LEN,
                   bs, opcodes_buffer, opcode_count, bits_read, bit_reads,
                   dec, twin, mvars>>

\* The loop test fails: return opcode_count.
LoopExit ==
    /\ hpc = "loop"
    /\ ~LoopCond
    /\ hpc' = "done"
    /\ UNCHANGED <<huffman_table, huffman_compressed_data, HUFFMAN_BITSTREAM_LEN,
                   bs, current_code, code_len, opcodes_buffer, opcode_count,
                   bits_read, bit_reads, dec, twin, mvars>>

\* The body of the caller's loop once the decoder has returned `opcode`.
StoreOpcode(opcode) ==
    /\ opcodes_buffer' = Append(opcodes_buffer, opcode)
    /\ opcode_count' = opcode_count + 1
    /\ bits_read' = bits_read + AVG_CODE_BITS
    /\ hpc' = IF opcode = ERROR_OPCODE /\ opcode_count + 1 > EARLY_BREAK_COUNT
              THEN "done" ELSE "loop"

\* One iteration of the decoder's while loop: read a bit, extend the code,
\* look it up; on a match, or at 16 bits, return to the caller's loop body.
DecodeBit ==
    /\ hpc = "decode"
    /\ code_len < MAX_CODE_LEN
    /\ \E byte \in FetchSet(huffman_compressed_data, bs.data_pos) :
         LET filled == Refill(bs, byte)
             bit    == ExtractBit(filled.buffer)
             code   == ShiftIn(current_code, bit)
             len    == code_len + 1
             hit    == Lookup(huffman_table, len, code)
         IN /\ bs' = Shift(filled)
            /\ bit_reads' = bit_reads + 1
            /\ current_code' = code
            /\ code_len' = len
            /\ IF hit # 0
               THEN StoreOpcode(huffman_table[hit].opcode)
               ELSE IF len >= MAX_CODE_LEN
                    THEN StoreOpcode(ERROR_OPCODE)
                    ELSE UNCHANGED <<opcodes_buffer, opcode_count, bits_read, hpc>>
    /\ UNCHANGED <<huffman_table, huffman_compressed_data, HUFFMAN_BITSTREAM_LEN,
                   dec, twin, mvars>>

HuffNext == CallDecode \/ DecodeBit \/ LoopExit

SpecHuff == HuffInit /\ [][HuffNext]_vars

\* The uint32_t bit buffer never reaches the width at which a shift would wrap.
BufferInRange == bs.buffer >= 0 /\ bs.buffer < Pow2(16)

(***************************************************************************)
(* Properties of the Huffman decoder                                       *)
(***************************************************************************)
\* Bit n (n = 0, 1, ...) of a payload laid out MSB-first.
PayloadBit(data, n) == (data[(n \div 8) + 1] \div Pow2(7 - (n % 8))) % 2

PayloadBits(data) == 8 * Len(data)

\* Bits taken from the stream so far.
BitsConsumed == 8 * bs.data_pos - bs.bits_available

\* Bit k (0 = first) of the codeword of entry e.
CodeBit(e, k) == (e.code \div Pow2(e.code_len - 1 - k)) % 2

\* Entry a's codeword is a prefix of entry b's.
IsPrefix(a, b) ==
    /\ a.code_len <= b.code_len
    /\ b.code \div Pow2(b.code_len - a.code_len) = a.code

PrefixFree(tab) ==
    /\ \A i \in 1..Len(tab) :
          /\ tab[i].code_len \in 1..16
          /\ tab[i].code \in 0..(Pow2(tab[i].code_len) - 1)
    /\ \A i, j \in 1..Len(tab) : i # j => ~IsPrefix(tab[i], tab[j])

\* The codeword of entry e lies in the payload starting at bit `pos`.
CodewordAt(data, e, pos) ==
    /\ pos + e.code_len <= PayloadBits(data)
    /\ \A k \in 0..(e.code_len - 1) : PayloadBit(data, pos + k) = CodeBit(e, k)

RECURSIVE TotalLen(_, _, _)
\* Bit length of the codewords of the first k entries named by s.
TotalLen(tab, s, k) ==
    IF k = 0 THEN 0 ELSE TotalLen(tab, s, k - 1) + tab[s[k]].code_len

\* The payload starts with the concatenated codewords of the entries s names.
LaidOut(data, tab, s) ==
    \A k \in 1..Len(s) : CodewordAt(data, tab[s[k]], TotalLen(tab, s, k - 1))

\* The sequences of n table entries whose codewords the payload starts with.
Layouts(n) ==
    {s \in [1..n -> 1..Len(huffman_table)] :
        LaidOut(huffman_compressed_data, huffman_table, s)}

\* C1: with a prefix-free table, whenever the payload starts with the
\* concatenated codewords of a sequence of entries, the calls of
\* huffman_decode_opcode made so far returned exactly the opcodes of those
\* entries in order and consumed exactly the codewords' bits (so each call
\* consumed its own codeword and no shorter prefix returned another entry).
C1_DecodesCodewords ==
    (hpc = "loop" /\ PrefixFree(huffman_table)) =>
        \A s \in Layouts(opcode_count) :
            /\ \A k \in 1..opcode_count :
                  opcodes_buffer[k] = huffman_table[s[k]].opcode
            /\ BitsConsumed = TotalLen(huffman_table, s, opcode_count)

\* C1 witness: three calls have returned the 16-bit codeword, a 1-bit and a
\* 2-bit codeword of a prefix-free table, 19 bits in all.
C1_Witness ==
    /\ hpc = "loop"
    /\ PrefixFree(huffman_table)
    /\ opcode_count = 3
    /\ \E s \in Layouts(3) : huffman_table[s[1]].code_len = 16
    /\ BitsConsumed = 19

\* The 16 bits of the payload from bit `pos` match no entry at any length.
NoMatchAt(data, tab, pos) ==
    /\ pos + 16 <= PayloadBits(data)
    /\ \A i \in 1..Len(tab) : ~CodewordAt(data, tab[i], pos)

\* A call of huffman_decode_opcode has returned: code_len is the number of
\* bits it consumed and the last stored opcode is what it returned.
Returned == hpc \in {"loop", "done"} /\ opcode_count > 0

\* C9: a call never consumes more than 16 bits, and when no entry matches
\* any prefix of the 16 bits at its start position it consumes exactly 16
\* bits and returns 0xFF.
C9_MissReturnsFF ==
    /\ code_len <= 16
    /\ Returned =>
          (NoMatchAt(huffman_compressed_data, huffman_table,
                     BitsConsumed - code_len)
             => code_len = 16 /\ opcodes_buffer[opcode_count] = 255)

\* C9 witness: a call returned 0xFF after 16 unmatched bits of the payload.
C9_Witness ==
    /\ Returned
    /\ code_len = 16
    /\ NoMatchAt(huffman_compressed_data, huffman_table, BitsConsumed - 16)
    /\ opcodes_buffer[opcode_count] = 255

\* C10 (as claimed): the reader never fetches a payload byte at an index at or
\* beyond ceil(HUFFMAN_BITSTREAM_LEN / 8); data_pos is one past the last
\* index fetched.
C10_ReaderStaysInPayload ==
    bs.data_pos <= CeilDiv(HUFFMAN_BITSTREAM_LEN, 8)

(***************************************************************************)
(* huffman_decompress_all_opcodes on long payloads                         *)
(***************************************************************************)
\* A payload of n bytes: `lead`, then 0xFF up to byte `ones`, then `mark`,
\* then 0x00.  With TableShort every 1 bit is opcode 0x05 and 001 is 0xFF.
Payload(n, lead, ones, mark) ==
    [k \in 1..n |-> IF k = 1 THEN lead
                    ELSE IF k <= ones THEN 255
                    ELSE IF k = ones + 1 THEN mark
                    ELSE 0]

\* Bit lengths whose 6-bit budget ends beyond the capacity of the opcode
\* buffer, and just beyond the early-break threshold.
BitsPastCapacity == AVG_CODE_BITS * (OPCODES_CAPACITY + 1)
BitsPastThreshold == AVG_CODE_BITS * (EARLY_BREAK_COUNT + 2) - 2

\* The long inputs: all 1 bits up to the capacity; 4000 1 bits then 001;
\* all 1 bits past the threshold; 001 first and then 1 bits.
LongInputs ==
    {[bits |-> BitsPastCapacity,
      data |-> Payload(CeilDiv(BitsPastCapacity, 8), 255,
                       CeilDiv(BitsPastCapacity, 8), 0)],
     [bits |-> BitsPastThreshold,
      data |-> Payload(CeilDiv(BitsPastThreshold, 8), 255,
                       EARLY_BREAK_COUNT \div 8, 32)],
     [bits |-> BitsPastThreshold,
      data |-> Payload(CeilDiv(BitsPastThreshold, 8), 255,
                       CeilDiv(BitsPastThreshold, 8), 0)],
     [bits |-> BitsPastThreshold,
      data |-> Payload(CeilDiv(BitsPastThreshold, 8), 63,
                       CeilDiv(BitsPastThreshold, 8), 0)]}

\* The short inputs: every table, every bit length up to MaxBits, payloads
\* of one repeated byte.
ShortInputs ==
    {[bits |-> n, data |-> Payload(CeilDiv(n, 8), b, 0, b)] :
        n \in 1..MaxBits, b \in {0, 255}}

\* The long inputs are taken up where their first `bytes` payload bytes have
\* been decoded: every byte 0xFF gave 8 opcodes 0x05, a first byte 0x3F gave
\* 0xFF and 5 opcodes 0x05; the reader has drained its byte.
ResumeBytes(input) ==
    IF input.bits = BitsPastCapacity THEN (OPCODES_CAPACITY \div 8) - 1
    ELSE (EARLY_BREAK_COUNT \div 8) - 1

ResumeCount(input) ==
    IF input.data[1] = 255 THEN 8 * ResumeBytes(input)
    ELSE 8 * ResumeBytes(input) - 2

ResumeOpcodes(input) ==
    [k \in 1..ResumeCount(input) |->
        IF k = 1 /\ input.data[1] # 255 THEN 255 ELSE 5]

\* huffman_decompress_all_opcodes at its loop test after ResumeCount(input)
\* iterations on a long input.
Resumed(input) ==
    /\ huffman_table = TableShort
    /\ HUFFMAN_BITSTREAM_LEN = input.bits
    /\ huffman_compressed_data = input.data
    /\ bs = [buffer |-> 255 * 256, bits_available |-> 0,
             data_pos |-> ResumeBytes(input)]
    /\ bit_reads = 8 * ResumeBytes(input)
    /\ current_code = 1
    /\ code_len = 1
    /\ opcodes_buffer = ResumeOpcodes(input)
    /\ opcode_count = ResumeCount(input)
    /\ bits_read = AVG_CODE_BITS * ResumeCount(input)
    /\ hpc = "loop"

\* huffman_decompress_all_opcodes entered on a short input.
Started(input) ==
    /\ huffman_table \in Tables
    /\ HUFFMAN_BITSTREAM_LEN = input.bits
    /\ huffman_compressed_data = input.data
    /\ bs = bitstream_init
    /\ bit_reads = 0
    /\ current_code = 0
    /\ code_len = 0
    /\ opcodes_buffer = <<>>
    /\ opcode_count = 0
    /\ bits_read = 0
    /\ hpc = "loop"

StreamInit ==
    /\ \/ \E input \in LongInputs : Resumed(input)
       \/ \E input \in ShortInputs : Started(input)
    /\ dec = NotCalled
    /\ twin = NotCalled
    /\ MainIdle

\* The program runs on: a step that can be taken is taken.
SpecStream == StreamInit /\ [][HuffNext]_vars /\ WF_vars(HuffNext)

\* The long inputs from the entry of huffman_decompress_all_opcodes.
StreamFullInit ==
    /\ \E input \in LongInputs :
         /\ huffman_table = TableShort
         /\ HUFFMAN_BITSTREAM_LEN = input.bits
         /\ huffman_compressed_data = input.data
    /\ bs = bitstream_init
    /\ bit_reads = 0
    /\ current_code = 0
    /\ code_len = 0
    /\ opcodes_buffer = <<>>
    /\ opcode_count = 0
    /\ bits_read = 0
    /\ hpc = "loop"
    /\ dec = NotCalled
    /\ twin = NotCalled
    /\ MainIdle

SpecStreamFull == StreamFullInit /\ [][HuffNext]_vars

\* A run from the entry passes through the state the long input is taken up
\* in: at the loop test with that many opcodes stored, it is that state.
ResumedIsReached ==
    \A input \in LongInputs :
        (/\ HUFFMAN_BITSTREAM_LEN = input.bits
         /\ huffman_compressed_data = input.data
         /\ hpc = "loop"
         /\ opcode_count = ResumeCount(input)) => Resumed(input)

\* min(ceil(HUFFMAN_BITSTREAM_LEN / 6), 8192)
CountLimit ==
    Min({CeilDiv(HUFFMAN_BITSTREAM_LEN, AVG_CODE_BITS), OPCODES_CAPACITY})

\* An 0xFF was stored as opcode number k for some k > 4000.
LateTerminator ==
    \E k \in (EARLY_BREAK_COUNT + 1)..Len(opcodes_buffer) : opcodes_buffer[k] = 255

StreamBounded ==
    /\ Len(opcodes_buffer) = opcode_count
    /\ bits_read = AVG_CODE_BITS * opcode_count
    /\ Len(opcodes_buffer) <= OPCODES_CAPACITY
    /\ hpc = "done" =>
          /\ opcode_count <= CountLimit
          /\ ~LateTerminator => opcode_count = CountLimit

\* C14: huffman_decompress_all_opcodes terminates; each iteration appends
\* one opcode (and charges 6 bits); no opcode is stored at index 8192 or
\* beyond; the count returned is at most min(ceil(LEN / 6), 8192), and is
\* that minimum when no 0xFF was decoded after the count passed 4000.
C14_StreamTerminatesBounded == []StreamBounded /\ <>(hpc = "done")

\* C14 witness: the loop ended on the capacity of the buffer, 8192 opcodes
\* stored with bits of the budget left.
C14_Witness ==
    /\ hpc = "done"
    /\ opcode_count = OPCODES_CAPACITY
    /\ bits_read < HUFFMAN_BITSTREAM_LEN

\* The loop was left through the early break: the opcode just stored is an
\* 0xFF and more than 4000 opcodes are stored.
EarlyBreak ==
    /\ hpc = "done"
    /\ opcode_count > EARLY_BREAK_COUNT
    /\ opcodes_buffer[opcode_count] = 255

\* C15 (as claimed): when the loop is left through the early break the
\* opcode buffer holds at least 12 terminators.
C15_EarlyBreakAfterAllFrames ==
    EarlyBreak =>
        Cardinality({k \in 1..opcode_count : opcodes_buffer[k] = 255})
            >= FRAME_COUNT

\* Bit k (0 = first read) of the code the running or last call has built.
CurrentCodeBit(k) == (current_code \div Pow2(code_len - 1 - k)) % 2

\* C16: the n-th call of bitstream_read_bit since bitstream_init (n = 0, 1,
\* ...) returns bit 7 - (n mod 8) of payload byte floor(n / 8): the bits a
\* decode call has shifted into current_code are the payload bits at the
\* positions of its reads; between calls bits_available is in 0..7 and
\* data_pos is ceil(reads / 8).
C16_BitsMsbFirst ==
    /\ bs.bits_available \in 0..7
    /\ bs.data_pos = CeilDiv(bit_reads, 8)
    /\ \A k \in 0..(code_len - 1) :
          LET n == bit_reads - code_len + k
          IN n < PayloadBits(huffman_compressed_data) =>
                CurrentCodeBit(k) =
                    (huffman_compressed_data[(n \div 8) + 1]
                        \div Pow2(7 - (n % 8))) % 2

\* C16 witness: the 17th read fetched the third payload byte and returned
\* its top bit, a 1, after a read that returned a 0.
C16_Witness ==
    /\ bit_reads = 17
    /\ bs.data_pos = 3
    /\ bs.bits_available = 7
    /\ Len(huffman_compressed_data) = 3
    /\ code_len >= 2
    /\ current_code % 4 = 1

(***************************************************************************)
(* decompress_frame                                                        *)
(***************************************************************************)
\* Pixel indexes of C, 0..4095.  A frame buffer is a sequence: the pixel at
\* C index x is element x + 1.
Pixels == 0..(FRAME_SIZE - 1)
Pixel(fb, x) == fb[x + 1]

\* Variant: the class tag taken with the mask 0xE0.
HighNibble_WrongMask(opcode) == (opcode \div 32) * 32

\* opcode & 0xF0 and opcode & 0x0F.
HighNibble(opcode) == (opcode \div 16) * 16
LowNibble(opcode) == opcode % 16

\* No index written.
NoWrite == <<0, -1>>
Range(lo, n) == IF n > 0 THEN <<lo, lo + n - 1>> ELSE NoWrite

\* Variant: the paint loop without its `pos < FRAME_SIZE` test.
RunLength_Unclamped(start, count) == count

\* Iterations of `for (j = 0; j < count && pos < FRAME_SIZE; j++)` from `start`.
RunLength(start, count) ==
    IF start >= FRAME_SIZE THEN 0
    ELSE IF count <= FRAME_SIZE - start THEN count ELSE FRAME_SIZE - start

\* Variant: the colour is added to the pixel beneath instead of replacing it.
Paint_Additive(fb, start, n, color) ==
    IF n <= 0 THEN fb
    ELSE SubSeq(fb, 1, start) \o [k \in 1..n |-> (fb[start + k] + color) % 16]
                              \o SubSeq(fb, start + n + 1, Len(fb))

\* frame_buffer[pos++] = current_color, n times from `start`.
Paint(fb, start, n, color) ==
    IF n <= 0 THEN fb
    ELSE SubSeq(fb, 1, start) \o [k \in 1..n |-> color]
                              \o SubSeq(fb, start + n + 1, Len(fb))

\* The state at the call: parameters set, locals not yet initialised (0 here).
Call(frame_index, opcodes, opcode_len, fb, prev) ==
    [frame_index |-> frame_index, opcodes |-> opcodes, opcode_len |-> opcode_len,
     i |-> 0, output_index |-> 0, pos |-> 0, current_color |-> 0,
     frame_buffer |-> fb, prev_frame_buffer |-> prev,
     fb_written |-> NoWrite, prev_written |-> NoWrite, pc |-> "entry"]

\* Variant: a delta frame that does not copy the previous frame first.
Enter_WithoutCopy(r) ==
    [r EXCEPT !.output_index = 0, !.pos = 0, !.current_color = 0, !.i = 0,
              !.fb_written = NoWrite, !.prev_written = NoWrite, !.pc = "loop"]

\* Entry: frame 0 starts its locals; a delta frame first copies the previous
\* frame into frame_buffer.
Enter(r) ==
    IF r.frame_index = 0
    THEN [r EXCEPT !.output_index = 0, !.current_color = 0, !.i = 0,
                   !.fb_written = NoWrite, !.prev_written = NoWrite,
                   !.pc = "loop"]
    ELSE [r EXCEPT !.frame_buffer = r.prev_frame_buffer,
                   !.pos = 0, !.current_color = 0, !.i = 0,
                   !.fb_written = Range(0, FRAME_SIZE), !.prev_written = NoWrite,
                   !.pc = "loop"]

\* The cursor of the active grammar.
Cursor(r) == IF r.frame_index = 0 THEN r.output_index ELSE r.pos

\* i < opcode_len && cursor < FRAME_SIZE
LoopGuard(r) == r.i < r.opcode_len /\ Cursor(r) < FRAME_SIZE

\* Variant: the repeat stores its count where it should store the colour.
BaselineRepeat_StoringCount(r, count) ==
    LET n == RunLength(r.output_index, count)
    IN [r EXCEPT !.frame_buffer = Paint(r.frame_buffer, r.output_index, n, count),
                 !.fb_written = Range(r.output_index, n),
                 !.output_index = r.output_index + n,
                 !.i = r.i + 1]

\* A repeat of `count` pixels in frame 0.
BaselineRepeat(r, count) ==
    LET n == RunLength(r.output_index, count)
    IN [r EXCEPT !.frame_buffer = Paint(r.frame_buffer, r.output_index, n,
                                        r.current_color),
                 !.fb_written = Range(r.output_index, n),
                 !.output_index = r.output_index + n,
                 !.i = r.i + 1]

\* One iteration of the frame 0 loop.
BaselineStep(r) ==
    LET opcode == r.opcodes[r.i + 1]
        q == [r EXCEPT !.fb_written = NoWrite, !.prev_written = NoWrite]
    IN IF opcode = 255 THEN [q EXCEPT !.pc = "fill"]
       ELSE IF HighNibble(opcode) = 0
            THEN [q EXCEPT !.current_color = LowNibble(opcode), !.i = r.i + 1]
       ELSE IF HighNibble(opcode) = 32
            THEN BaselineRepeat(q, LowNibble(opcode) + 1)
       ELSE IF HighNibble(opcode) = 48
            THEN BaselineRepeat(q, (LowNibble(opcode) + 1) * 16)
       ELSE [q EXCEPT !.i = r.i + 1]

\* A repeat of `count` pixels in a delta frame.
DeltaRepeat(r, count) ==
    LET n == RunLength(r.pos, count)
    IN [r EXCEPT !.frame_buffer = Paint(r.frame_buffer, r.pos, n, r.current_color),
                 !.fb_written = Range(r.pos, n),
                 !.pos = r.pos + n,
                 !.i = r.i + 1]

\* Variant: a skip that paints the positions it passes, as the frame 0
\* grammar does for 0x3n.
Skip_Painting(r, count) == DeltaRepeat(r, count)

\* pos += count.
Skip(r, count) == [r EXCEPT !.pos = r.pos + count, !.i = r.i + 1]

\* Variant: the delta loop without its break on 0xFF.
DeltaStep_IgnoringTerminator(r) ==
    LET opcode == r.opcodes[r.i + 1]
        q == [r EXCEPT !.fb_written = NoWrite, !.prev_written = NoWrite]
    IN IF HighNibble(opcode) = 0
            THEN [q EXCEPT !.current_color = LowNibble(opcode), !.i = r.i + 1]
       ELSE IF HighNibble(opcode) = 16
            THEN Skip(q, LowNibble(opcode) + 1)
       ELSE IF HighNibble(opcode) = 32
            THEN DeltaRepeat(q, LowNibble(opcode) + 1)
       ELSE IF HighNibble(opcode) = 48
            THEN Skip(q, (LowNibble(opcode) + 1) * 16)
       ELSE IF HighNibble(opcode) = 64
            THEN DeltaRepeat(q, (LowNibble(opcode) + 1) * 16)
       ELSE IF HighNibble(opcode) = 80
            THEN Skip(q, (LowNibble(opcode) + 1) * 64)
       ELSE [q EXCEPT !.i = r.i + 1]

\* One iteration of the delta loop.
DeltaStep(r) ==
    LET opcode == r.opcodes[r.i + 1]
        q == [r EXCEPT !.fb_written = NoWrite, !.prev_written = NoWrite]
    IN IF opcode = 255 THEN [q EXCEPT !.pc = "save"]
       ELSE IF HighNibble(opcode) = 0
            THEN [q EXCEPT !.current_color = LowNibble(opcode), !.i = r.i + 1]
       ELSE IF HighNibble(opcode) = 16
            THEN Skip(q, LowNibble(opcode) + 1)
       ELSE IF HighNibble(opcode) = 32
            THEN DeltaRepeat(q, LowNibble(opcode) + 1)
       ELSE IF HighNibble(opcode) = 48
            THEN Skip(q, (LowNibble(opcode) + 1) * 16)
       ELSE IF HighNibble(opcode) = 64
            THEN DeltaRepeat(q, (LowNibble(opcode) + 1) * 16)
       ELSE IF HighNibble(opcode) = 80
            THEN Skip(q, (LowNibble(opcode) + 1) * 64)
       ELSE [q EXCEPT !.i = r.i + 1]

\* The loop test fails: frame 0 goes on to fill, a delta frame to the save.
LoopEnd(r) ==
    [r EXCEPT !.fb_written = NoWrite, !.prev_written = NoWrite,
              !.pc = IF r.frame_index = 0 THEN "fill" ELSE "save"]

\* Variant: no fill of the unwritten tail.
Fill_Skipped(r) ==
    [r EXCEPT !.fb_written = NoWrite, !.prev_written = NoWrite, !.pc = "save"]

\* Fill remaining: while (output_index < FRAME_SIZE) frame_buffer[output_index++] = 0.
Fill(r) ==
    LET n == RunLength(r.output_index, FRAME_SIZE)
    IN [r EXCEPT !.frame_buffer = Paint(r.frame_buffer, r.output_index, n, 0),
                 !.fb_written = Range(r.output_index, n),
                 !.prev_written = NoWrite,
                 !.output_index = r.output_index + n,
                 !.pc = "save"]

\* Variant: the frame is not saved for the next delta.
Save_Skipped(r) ==
    [r EXCEPT !.fb_written = NoWrite, !.prev_written = NoWrite, !.pc = "done"]

\* Save for next delta: prev_frame_buffer[i] = frame_buffer[i] for every i.
Save(r) ==
    [r EXCEPT !.prev_frame_buffer = r.frame_buffer,
              !.fb_written = NoWrite,
              !.prev_written = Range(0, FRAME_SIZE),
              !.pc = "done"]

(***************************************************************************)
(* One call of decompress_frame on drawn inputs                            *)
(***************************************************************************)
RECURSIVE Rep(_, _)
Rep(x, n) == IF n = 0 THEN <<>> ELSE <<x>> \o Rep(x, n - 1)

RECURSIVE SeqsUpTo(_, _)
\* The sequences over S of length at most n.
SeqsUpTo(S, n) ==
    IF n = 0 THEN {<<>>}
    ELSE LET shorter == SeqsUpTo(S, n - 1)
         IN shorter \cup {Append(t, x) : t \in {u \in shorter : Len(u) = n - 1},
                                          x \in S}

\* Opcodes the tail of a segment is drawn from.  Frame 0: set colour 5,
\* repeat 3, repeat long 256, terminator, and two opcodes outside its grammar
\* (0x12, 0x70).  Delta frames: set colour 5, skip 3, repeat 3, skip long 256,
\* repeat long 256, skip very long 1024, terminator, and 0x70.
OpcodeAlphabet(frame_index) ==
    IF frame_index = 0 THEN {5, 34, 63, 255, 18, 112}
    ELSE {5, 18, 34, 63, 79, 95, 255, 112}

\* Segments start with nothing or with a run that brings the cursor to 3840,
\* near the end of the frame: 15 repeats of 256 pixels in frame 0, skips of
\* 3 * 1024 and 3 * 256 positions in a delta frame.
SegmentHeads(frame_index) ==
    IF frame_index = 0 THEN {<<>>, Rep(63, 15)}
    ELSE {<<>>, Rep(95, 3) \o Rep(63, 3)}

\* Set colour 5 then repeat 4; set colour 5, skip 3, repeat 3.
ExampleSegments == {<<5, 35>>, <<5, 18, 34>>}

Segments(frame_index) ==
    {h \o t : h \in SegmentHeads(frame_index),
              t \in SeqsUpTo(OpcodeAlphabet(frame_index), MaxTail)}
        \cup ExampleSegments

ZeroFrame == [k \in 1..FRAME_SIZE |-> 0]
StripedFrame == [k \in 1..FRAME_SIZE |-> 1 + (k % 3)]

\* Contents the two buffers hold between calls (they are equal then): the
\* static zero initialisation, or a frame an earlier call left.
EarlierFrames == {ZeroFrame, StripedFrame}

FrameIndexes == {0, 1, FRAME_COUNT - 1}

FrameInit ==
    /\ \E frame_index \in FrameIndexes, held \in EarlierFrames :
         \E opcodes \in Segments(frame_index) :
            dec = Call(frame_index, opcodes, Len(opcodes), held, held)
    /\ twin = NotCalled
    /\ huffman_table = <<>>
    /\ huffman_compressed_data = <<>>
    /\ HUFFMAN_BITSTREAM_LEN = 0
    /\ bs = bitstream_init
    /\ bit_reads = 0
    /\ current_code = 0
    /\ code_len = 0
    /\ opcodes_buffer = <<>>
    /\ opcode_count = 0
    /\ bits_read = 0
    /\ hpc = "idle"
    /\ MainIdle

FrameRest == UNCHANGED <<hvars, twin, mvars>>

FrameEnter == dec.pc = "entry" /\ dec' = Enter(dec) /\ FrameRest

FrameBaselineStep ==
    /\ dec.pc = "loop" /\ dec.frame_index = 0 /\ LoopGuard(dec)
    /\ dec' = BaselineStep(dec)
    /\ FrameRest

FrameDeltaStep ==
    /\ dec.pc = "loop" /\ dec.frame_index # 0 /\ LoopGuard(dec)
    /\ dec' = DeltaStep(dec)
    /\ FrameRest

FrameLoopEnd ==
    dec.pc = "loop" /\ ~LoopGuard(dec) /\ dec' = LoopEnd(dec) /\ FrameRest

FrameFill == dec.pc = "fill" /\ dec' = Fill(dec) /\ FrameRest

FrameSave == dec.pc = "save" /\ dec' = Save(dec) /\ FrameRest

FrameNext ==
    \/ FrameEnter
    \/ FrameBaselineStep
    \/ FrameDeltaStep
    \/ FrameLoopEnd
    \/ FrameFill
    \/ FrameSave

SpecFrame == FrameInit /\ [][FrameNext]_vars

(***************************************************************************)
(* Properties of decompress_frame                                          *)
(***************************************************************************)
\* The part of a segment before its first 0xFF.
UpToTerminator(seg) ==
    LET ff == {k \in 1..Len(seg) : seg[k] = 255}
    IN IF ff = {} THEN seg ELSE SubSeq(seg, 1, Min(ff) - 1)

\* The colour in force at opcode k: the low nibble of the last 0x0n before
\* it, 0 when there is none.
ColourAt(seg, k) ==
    LET sets == {j \in 1..(k - 1) : seg[j] \div 16 = 0}
    IN IF sets = {} THEN 0 ELSE seg[Max(sets)] % 16

\* Pixels a frame 0 opcode writes: 0x2n n+1, 0x3n (n+1)*16, others none.
BaselineCount(opcode) ==
    IF opcode \div 16 = 2 THEN (opcode % 16) + 1
    ELSE IF opcode \div 16 = 3 THEN ((opcode % 16) + 1) * 16
    ELSE 0

RECURSIVE Expansion(_, _)
\* The run-length expansion of the first k opcodes of a frame 0 segment.
Expansion(seg, k) ==
    IF k = 0 THEN <<>>
    ELSE Expansion(seg, k - 1)
           \o [j \in 1..BaselineCount(seg[k]) |-> ColourAt(seg, k)]

\* The expansion, cut at 4096 pixels or padded to them with colour 0.
BaselineFrame(seg) ==
    SubSeq(Expansion(seg, Len(seg)) \o [k \in 1..FRAME_SIZE |-> 0], 1, FRAME_SIZE)

Returning(r) == r.pc \in {"save", "done"}

\* C2: for frame 0 the frame produced is the run-length expansion of the
\* segment (up to its terminator) with the colour starting at 0, truncated at
\* 4096 pixels and followed by colour 0 to the end of the frame, whatever the
\* buffers held before; [0x05, 0x23] gives four pixels of colour 5, then 0.
C2_BaselineExpansion ==
    (dec.pc # "idle" /\ dec.frame_index = 0 /\ Returning(dec)) =>
        /\ dec.frame_buffer = BaselineFrame(UpToTerminator(dec.opcodes))
        /\ dec.opcodes = <<5, 35>> =>
              \A x \in Pixels :
                  Pixel(dec.frame_buffer, x) = IF x < 4 THEN 5 ELSE 0

\* C2 witness: frame 0 of [0x05, 0x23] is complete over buffers that held a
\* non-zero frame.
C2_Witness ==
    /\ dec.pc = "save" /\ dec.frame_index = 0
    /\ dec.opcodes = <<5, 35>>
    /\ dec.prev_frame_buffer = StripedFrame
    /\ Pixel(dec.frame_buffer, 3) = 5
    /\ Pixel(dec.frame_buffer, 4) = 0
    /\ Pixel(dec.frame_buffer, 4095) = 0

IsSkip(opcode) == opcode \div 16 \in {1, 3, 5}
IsRepeat(opcode) == opcode \div 16 \in {2, 4}

\* Positions a delta opcode covers: 0x1n/0x2n n+1, 0x3n/0x4n (n+1)*16,
\* 0x5n (n+1)*64, others none.
DeltaCount(opcode) ==
    IF opcode \div 16 \in {1, 2} THEN (opcode % 16) + 1
    ELSE IF opcode \div 16 \in {3, 4} THEN ((opcode % 16) + 1) * 16
    ELSE IF opcode \div 16 = 5 THEN ((opcode % 16) + 1) * 64
    ELSE 0

RECURSIVE CursorAfter(_, _)
\* The cursor after the first k opcodes of a delta segment: a skip adds its
\* count, a repeat adds the pixels it wrote.
CursorAfter(seg, k) ==
    IF k = 0 THEN 0
    ELSE LET c == CursorAfter(seg, k - 1)
             n == DeltaCount(seg[k])
         IN IF IsSkip(seg[k]) THEN c + n
            ELSE IF IsRepeat(seg[k])
                 THEN (IF c + n > FRAME_SIZE THEN FRAME_SIZE ELSE c + n)
            ELSE c

\* The frame f with its pixels lo..hi-1 set to `colour`.
Overwritten(f, lo, hi, colour) ==
    IF hi <= lo THEN f
    ELSE SubSeq(f, 1, lo) \o [k \in 1..(hi - lo) |-> colour]
                          \o SubSeq(f, hi + 1, Len(f))

RECURSIVE DeltaFrame(_, _, _)
\* The previous frame with the pixels under each of the first k opcodes that
\* is a repeat overwritten by the colour in force there.
DeltaFrame(prev, seg, k) ==
    IF k = 0 THEN prev
    ELSE IF IsRepeat(seg[k])
         THEN Overwritten(DeltaFrame(prev, seg, k - 1), CursorAfter(seg, k - 1),
                          CursorAfter(seg, k), ColourAt(seg, k))
         ELSE DeltaFrame(prev, seg, k - 1)

\* C3: in a delta frame, after i opcodes the cursor is the sum of the skips
\* and repeats so far and frame_buffer is the previous frame except under the
\* repeats, which hold the colour in force (0 at the start of the frame);
\* [0x05, 0x12, 0x22] changes only positions 3..5, to colour 5.
C3_DeltaOverlay ==
    (dec.pc \in {"loop", "save"} /\ dec.frame_index # 0) =>
        /\ dec.pos = CursorAfter(dec.opcodes, dec.i)
        /\ dec.frame_buffer =
               DeltaFrame(dec.prev_frame_buffer, dec.opcodes, dec.i)
        /\ (dec.pc = "save" /\ dec.opcodes = <<5, 18, 34>>) =>
              \A x \in Pixels :
                  Pixel(dec.frame_buffer, x) =
                      IF x \in 3..5 THEN 5 ELSE Pixel(dec.prev_frame_buffer, x)

\* C3 witness: the delta [0x05, 0x12, 0x22] is complete over a non-zero
\* previous frame.
C3_Witness ==
    /\ dec.pc = "save" /\ dec.frame_index = 1
    /\ dec.opcodes = <<5, 18, 34>>
    /\ dec.prev_frame_buffer = StripedFrame
    /\ dec.pos = 6
    /\ Pixel(dec.frame_buffer, 2) = Pixel(StripedFrame, 2)
    /\ Pixel(dec.frame_buffer, 3) = 5
    /\ Pixel(dec.frame_buffer, 5) = 5
    /\ Pixel(dec.frame_buffer, 6) = Pixel(StripedFrame, 6)

InBounds(w) == w = NoWrite \/ (0 <= w[1] /\ w[1] <= w[2] /\ w[2] <= FRAME_SIZE - 1)

\* The opcode the loop has just executed is a repeat of the active grammar.
JustRepeated(r) ==
    /\ r.pc = "loop" /\ r.i > 0
    /\ IF r.frame_index = 0 THEN BaselineCount(r.opcodes[r.i]) > 0
       ELSE IsRepeat(r.opcodes[r.i])

RepeatCount(r) ==
    IF r.frame_index = 0 THEN BaselineCount(r.opcodes[r.i])
    ELSE DeltaCount(r.opcodes[r.i])

\* C4: no step of decompress_frame writes frame_buffer or prev_frame_buffer
\* outside 0..4095 (the buffers keep their 4096 elements), and a repeat
\* writes the pixels from the cursor on: all `count` of them, or only those
\* up to index 4095 when the count runs past the end of the frame.
C4_WritesInBounds ==
    dec.pc # "idle" =>
        /\ InBounds(dec.fb_written)
        /\ InBounds(dec.prev_written)
        /\ Len(dec.frame_buffer) = FRAME_SIZE
        /\ Len(dec.prev_frame_buffer) = FRAME_SIZE
        /\ JustRepeated(dec) =>
              /\ dec.fb_written # NoWrite
              /\ dec.fb_written[2] = Cursor(dec) - 1
              /\ \/ dec.fb_written[2] - dec.fb_written[1] + 1 = RepeatCount(dec)
                 \/ /\ dec.fb_written[2] - dec.fb_written[1] + 1 < RepeatCount(dec)
                    /\ dec.fb_written[2] = FRAME_SIZE - 1

\* C4 witness: a repeat of 256 pixels issued at position 3843 wrote 3843..4095.
C4_Witness ==
    /\ JustRepeated(dec)
    /\ RepeatCount(dec) = 256
    /\ dec.fb_written = <<3843, 4095>>

\* C5 (as claimed): the cursor stays within 0..4096 while decompress_frame runs.
C5_CursorInRange ==
    dec.pc # "idle" => (0 <= Cursor(dec) /\ Cursor(dec) <= FRAME_SIZE)

(***************************************************************************)
(* One call of decompress_frame ending in each of the 256 opcodes          *)
(***************************************************************************)
\* What precedes the opcode: a set colour, or the run to 3840 and a set colour.
OpcodePrefixes(frame_index) ==
    {h \o <<9>> : h \in SegmentHeads(frame_index)}

OpcodeInit ==
    /\ \E frame_index \in FrameIndexes, held \in EarlierFrames :
         \E before \in OpcodePrefixes(frame_index), opcode \in 0..255 :
            dec = Call(frame_index, before \o <<opcode>>, Len(before) + 1,
                       held, held)
    /\ twin = NotCalled
    /\ huffman_table = <<>>
    /\ huffman_compressed_data = <<>>
    /\ HUFFMAN_BITSTREAM_LEN = 0
    /\ bs = bitstream_init
    /\ bit_reads = 0
    /\ current_code = 0
    /\ code_len = 0
    /\ opcodes_buffer = <<>>
    /\ opcode_count = 0
    /\ bits_read = 0
    /\ hpc = "idle"
    /\ MainIdle

SpecOpcode == OpcodeInit /\ [][FrameNext]_vars

\* The high nibble has no meaning in the grammar of this frame index.
Unassigned(frame_index, opcode) ==
    /\ opcode # 255
    /\ IF frame_index = 0 THEN opcode \div 16 \in {1} \cup 4..15
       ELSE opcode \div 16 \in 6..15

\* The loop is about to execute this opcode.
NextOpcode == dec.opcodes[dec.i + 1]
AtOpcode == dec.pc = "loop" /\ LoopGuard(dec)

\* The step leaves cursor, colour and every pixel as they were and goes on to
\* the next opcode.
NoOpStep ==
    /\ dec'.pc = "loop"
    /\ dec'.i = dec.i + 1
    /\ dec'.output_index = dec.output_index
    /\ dec'.pos = dec.pos
    /\ dec'.current_color = dec.current_color
    /\ dec'.frame_buffer = dec.frame_buffer
    /\ dec'.prev_frame_buffer = dec.prev_frame_buffer

\* The step paints (n+1)*16 pixels from the cursor, as far as the frame goes.
PaintLongStep ==
    LET count == ((NextOpcode % 16) + 1) * 16
        stop  == IF dec.output_index + count > FRAME_SIZE THEN FRAME_SIZE
                 ELSE dec.output_index + count
    IN /\ dec'.output_index = stop
       /\ \A x \in Pixels :
             Pixel(dec'.frame_buffer, x) =
                 IF dec.output_index <= x /\ x < stop THEN dec.current_color
                 ELSE Pixel(dec.frame_buffer, x)

\* The step moves the cursor (n+1)*16 positions on and changes no pixel.
SkipLongStep ==
    /\ dec'.pos = dec.pos + ((NextOpcode % 16) + 1) * 16
    /\ dec'.frame_buffer = dec.frame_buffer
    /\ dec'.current_color = dec.current_color

\* C19: an opcode whose high nibble is unassigned in the active grammar
\* (0x1, 0x4..0xF in frame 0, 0x6..0xF in a delta frame, 0xFF apart) leaves
\* cursor, colour and pixels unchanged; 0x3n paints (n+1)*16 pixels in
\* frame 0 and only skips (n+1)*16 positions in a delta frame.
C19_UnassignedAreNoOps ==
    [][AtOpcode =>
          /\ Unassigned(dec.frame_index, NextOpcode) => NoOpStep
          /\ (NextOpcode \div 16 = 3 /\ dec.frame_index = 0) => PaintLongStep
          /\ (NextOpcode \div 16 = 3 /\ dec.frame_index # 0) => SkipLongStep]_vars

\* C19 witness: frame 0 has passed 0x1F after a set colour 9 with nothing
\* painted and the colour still 9.
C19_Witness ==
    /\ dec.pc = "loop"
    /\ dec.frame_index = 0
    /\ dec.opcodes = <<9, 31>>
    /\ dec.i = 2
    /\ dec.output_index = 0
    /\ dec.current_color = 9
    /\ dec.frame_buffer = StripedFrame

(***************************************************************************)
(* The same delta segment applied twice in a row                           *)
(***************************************************************************)
TwiceInit ==
    /\ \E frame_index \in FrameIndexes \ {0}, held \in EarlierFrames :
         \E opcodes \in Segments(frame_index) :
            dec = Call(frame_index, opcodes, Len(opcodes), held, held)
    /\ twin = NotCalled
    /\ huffman_table = <<>>
    /\ huffman_compressed_data = <<>>
    /\ HUFFMAN_BITSTREAM_LEN = 0
    /\ bs = bitstream_init
    /\ bit_reads = 0
    /\ current_code = 0
    /\ code_len = 0
    /\ opcodes_buffer = <<>>
    /\ opcode_count = 0
    /\ bits_read = 0
    /\ hpc = "idle"
    /\ MainIdle

\* The first pass has returned: decompress_frame is called again with the
\* same arguments, on the buffers as the first pass left them.  twin keeps
\* the first pass as it ended.
TwiceRecall ==
    /\ dec.pc = "done"
    /\ twin.pc = "idle"
    /\ twin' = dec
    /\ dec' = Call(dec.frame_index, dec.opcodes, dec.opcode_len,
                   dec.frame_buffer, dec.prev_frame_buffer)
    /\ UNCHANGED <<hvars, mvars>>

TwiceNext ==
    \/ TwiceRecall
    \/ FrameEnter
    \/ FrameDeltaStep
    \/ FrameLoopEnd
    \/ FrameSave

SpecTwice == TwiceInit /\ [][TwiceNext]_vars

\* C20: a delta segment applied a second time, on top of the frame F its
\* first pass produced, yields F again.
C20_DeltaTwiceIsOnce ==
    (twin.pc = "done" /\ Returning(dec)) =>
        dec.frame_buffer = twin.frame_buffer

\* C20 witness: [0x05, 0x12, 0x22] has been applied twice over a non-zero
\* previous frame; the frame of the first pass differs from that previous
\* frame and the second pass left it as it was.
C20_Witness ==
    /\ twin.pc = "done" /\ dec.pc = "done"
    /\ dec.opcodes = <<5, 18, 34>>
    /\ Pixel(twin.frame_buffer, 3) = 5
    /\ Pixel(twin.frame_buffer, 2) = Pixel(StripedFrame, 2)
    /\ Pixel(twin.frame_buffer, 2) # 0
    /\ dec.frame_buffer = twin.frame_buffer

(***************************************************************************)
(* Two runs of decompress_frame side by side                               *)
(***************************************************************************)
\* The next step of a run, whichever it is; a finished run stays as it is.
Step(r) ==
    IF r.pc = "entry" THEN Enter(r)
    ELSE IF r.pc = "loop"
         THEN (IF ~LoopGuard(r) THEN LoopEnd(r)
               ELSE IF r.frame_index = 0 THEN BaselineStep(r) ELSE DeltaStep(r))
    ELSE IF r.pc = "fill" THEN Fill(r)
    ELSE IF r.pc = "save" THEN Save(r)
    ELSE r

\* Both runs get the same frame index and segment.  For frame 0 the second
\* run starts over other buffer contents; for a delta frame it gets the same
\* previous frame and another frame_buffer (the contents the call is said not
\* to depend on).
PairInit ==
    /\ \E frame_index \in FrameIndexes, held \in EarlierFrames :
         \E opcodes \in Segments(frame_index),
            other \in EarlierFrames \ {held} :
            /\ dec = Call(frame_index, opcodes, Len(opcodes), held, held)
            /\ twin = Call(frame_index, opcodes, Len(opcodes), other,
                           IF frame_index = 0 THEN other ELSE held)
    /\ huffman_table = <<>>
    /\ huffman_compressed_data = <<>>
    /\ HUFFMAN_BITSTREAM_LEN = 0
    /\ bs = bitstream_init
    /\ bit_reads = 0
    /\ current_code = 0
    /\ code_len = 0
    /\ opcodes_buffer = <<>>
    /\ opcode_count = 0
    /\ bits_read = 0
    /\ hpc = "idle"
    /\ MainIdle

PairStep ==
    /\ ~(dec.pc = "done" /\ twin.pc = "done")
    /\ dec' = Step(dec)
    /\ twin' = Step(twin)
    /\ UNCHANGED <<hvars, mvars>>

PairNext == PairStep

SpecPair == PairInit /\ [][PairNext]_vars

\* C6: two runs given the same frame index, the same segment and (for a
\* delta frame) the same previous frame end with the same frame_buffer,
\* whatever frame_buffer (and for frame 0 prev_frame_buffer) held before.
C6_SameInputsSameFrame ==
    (dec.pc # "idle" /\ twin.pc # "idle" /\ Returning(dec) /\ Returning(twin)) =>
        dec.frame_buffer = twin.frame_buffer

\* C6 witness: two runs of frame 0 that started over different buffer
\* contents have both produced their frame.
C6_Witness ==
    /\ dec.pc = "save" /\ twin.pc = "save"
    /\ dec.frame_index = 0
    /\ dec.prev_frame_buffer # twin.prev_frame_buffer
    /\ Len(dec.opcodes) > 0
    /\ dec.frame_buffer = twin.frame_buffer

(***************************************************************************)
(* Two runs of decompress_frame on a segment and on a longer one           *)
(***************************************************************************)
\* Opcodes appended to the second run's segment: set colour and repeats.
Suffixes == {<<7, 47>>, <<15, 79, 35>>}

\* Both runs get the same frame index and buffers (a non-zero frame an
\* earlier call left); the second run's segment is the first run's followed
\* by more opcodes.
SuffixInit ==
    /\ \E frame_index \in FrameIndexes, held \in {StripedFrame} :
         \E opcodes \in Segments(frame_index), more \in Suffixes :
            /\ dec = Call(frame_index, opcodes, Len(opcodes), held, held)
            /\ twin = Call(frame_index, opcodes \o more,
                           Len(opcodes) + Len(more), held, held)
    /\ huffman_table = <<>>
    /\ huffman_compressed_data = <<>>
    /\ HUFFMAN_BITSTREAM_LEN = 0
    /\ bs = bitstream_init
    /\ bit_reads = 0
    /\ current_code = 0
    /\ code_len = 0
    /\ opcodes_buffer = <<>>
    /\ opcode_count = 0
    /\ bits_read = 0
    /\ hpc = "idle"
    /\ MainIdle

SpecSuffix == SuffixInit /\ [][PairNext]_vars

\* The segment holds an 0xFF.
HasTerminator(seg) == \E k \in 1..Len(seg) : seg[k] = 255

RECURSIVE BaselinePixels(_, _)
\* The pixels the first k opcodes of a frame 0 segment ask for.
BaselinePixels(seg, k) ==
    IF k = 0 THEN 0 ELSE BaselinePixels(seg, k - 1) + BaselineCount(seg[k])

\* The segment brings the cursor of its grammar to 4096 or beyond.
ReachesEnd(frame_index, seg) ==
    IF frame_index = 0 THEN BaselinePixels(seg, Len(seg)) >= FRAME_SIZE
    ELSE CursorAfter(seg, Len(seg)) >= FRAME_SIZE

\* The segment stops the loop before its end or at it: it holds an 0xFF, or
\* brings the cursor to 4096 or beyond.
Stops(frame_index, seg) == HasTerminator(seg) \/ ReachesEnd(frame_index, seg)

\* C18: when the first run's segment holds an 0xFF or brings the cursor to
\* 4096 or beyond, the opcodes that follow it in the second run's segment
\* have no effect: both runs produce the same frame.
C18_NothingAfterStop ==
    (dec.pc = "done" /\ twin.pc = "done"
        /\ Stops(dec.frame_index, dec.opcodes)) =>
        /\ dec.frame_buffer = twin.frame_buffer
        /\ dec.prev_frame_buffer = twin.prev_frame_buffer

\* The opcodes after the common part do change the frame when the first
\* run's segment does not stop the loop.
SuffixMatters ==
    /\ dec.pc = "done" /\ twin.pc = "done"
    /\ ~Stops(dec.frame_index, dec.opcodes)
    /\ dec.frame_buffer # twin.frame_buffer

\* C18 witness: a delta run stopped at an 0xFF after painting, the second
\* run had repeats after it, and the frames are equal.
C18_Witness ==
    /\ dec.pc = "done" /\ twin.pc = "done"
    /\ dec.frame_index # 0
    /\ dec.opcodes = <<34, 255>>
    /\ Len(twin.opcodes) > Len(dec.opcodes)
    /\ dec.frame_buffer = twin.frame_buffer
    /\ dec.frame_buffer # StripedFrame
    /\ dec.frame_buffer # ZeroFrame

(***************************************************************************)
(* main                                                                    *)
(***************************************************************************)
\* A table of 6-bit codewords, so that the 6 bits the caller charges per
\* opcode are the bits the decoder consumes.
MainTable == <<Entry(0, 6, 5), Entry(1, 6, 35), Entry(2, 6, 18), Entry(3, 6, 34),
               Entry(63, 6, 255)>>

EntryOf(tab, opcode) == tab[CHOOSE i \in 1..Len(tab) : tab[i].opcode = opcode]

RECURSIVE EncodeBits(_, _)
\* The codewords of a sequence of opcodes, concatenated.
EncodeBits(tab, stream) ==
    IF stream = <<>> THEN <<>>
    ELSE [k \in 1..EntryOf(tab, Head(stream)).code_len |->
              CodeBit(EntryOf(tab, Head(stream)), k - 1)]
         \o EncodeBits(tab, Tail(stream))

BitOr0(bits, n) == IF n <= Len(bits) THEN bits[n] ELSE 0

\* Bits packed MSB-first into bytes, the last byte padded with 0 bits.
PackBytes(bits) ==
    [b \in 1..CeilDiv(Len(bits), 8) |->
        128 * BitOr0(bits, 8 * b - 7) + 64 * BitOr0(bits, 8 * b - 6)
        + 32 * BitOr0(bits, 8 * b - 5) + 16 * BitOr0(bits, 8 * b - 4)
        + 8 * BitOr0(bits, 8 * b - 3) + 4 * BitOr0(bits, 8 * b - 2)
        + 2 * BitOr0(bits, 8 * b - 1) + BitOr0(bits, 8 * b)]

RECURSIVE Concat(_, _)
\* n copies of the sequence x, concatenated.
Concat(x, n) == IF n = 0 THEN <<>> ELSE x \o Concat(x, n - 1)

\* Opcode streams (not empty): a number of terminated segments, then
\* possibly opcodes with no terminator after them.
TerminatorCounts == {0, 1, FRAME_COUNT - 1, FRAME_COUNT, FRAME_COUNT + 1}
SegmentBodies == {<<5, 35>>, <<18, 34>>}
Trailers == {<<>>, <<5, 35>>}
MainStreams ==
    {Concat(b \o <<255>>, n) \o t :
        n \in TerminatorCounts, b \in SegmentBodies, t \in Trailers} \ {<<>>}

\* What the 13 ints of frame_starts may hold before anything is stored in
\* them (the array is not initialised): zeros, ascending leftovers,
\* descending leftovers.
StackImages ==
    {[k \in 1..(FRAME_COUNT + 1) |-> 0],
     [k \in 1..(FRAME_COUNT + 1) |-> 2 * k + 1],
     [k \in 1..(FRAME_COUNT + 1) |-> 40 - 3 * k]}

\* The static buffers before the first call.
StaticBuffers ==
    [pc |-> "idle", frame_buffer |-> ZeroFrame, prev_frame_buffer |-> ZeroFrame]

MainInit ==
    /\ vga_id \in {VGA_MAGIC, 0}
    /\ huffman_table = MainTable
    /\ \E stream \in MainStreams :
         /\ huffman_compressed_data = PackBytes(EncodeBits(MainTable, stream))
         /\ HUFFMAN_BITSTREAM_LEN = Len(EncodeBits(MainTable, stream))
    /\ bs = bitstream_init
    /\ bit_reads = 0
    /\ current_code = 0
    /\ code_len = 0
    /\ opcodes_buffer = <<>>
    /\ opcode_count = 0
    /\ bits_read = 0
    /\ hpc = "idle"
    /\ dec = StaticBuffers
    /\ twin = NotCalled
    /\ total_opcodes = 0
    /\ frame_starts = <<>>
    /\ frame_count = 0
    /\ scan_i = 0
    /\ frame = 0
    /\ vga = [ctrl |-> 0, upload_addr |-> 0, uploads |-> <<>>]
    /\ mpc = "start"
    /\ calls = <<>>

\* Verify VGA: a wrong id returns 1.
MainReject ==
    /\ mpc = "start"
    /\ vga_id # VGA_MAGIC
    /\ mpc' = "returned"
    /\ UNCHANGED <<hvars, dec, twin, vga_id, calls, total_opcodes, frame_starts,
                   frame_count, scan_i, frame, vga>>

\* Palette and control register set up; huffman_decompress_all_opcodes entered.
MainStart ==
    /\ mpc = "start"
    /\ vga_id = VGA_MAGIC
    /\ vga' = [vga EXCEPT !.ctrl = 1]
    /\ bs' = bitstream_init
    /\ bit_reads' = 0
    /\ opcode_count' = 0
    /\ bits_read' = 0
    /\ hpc' = "loop"
    /\ mpc' = "huffman"
    /\ UNCHANGED <<huffman_table, huffman_compressed_data, HUFFMAN_BITSTREAM_LEN,
                   current_code, code_len, opcodes_buffer, dec, twin, vga_id, calls,
                   total_opcodes, frame_starts, frame_count, scan_i, frame>>

\* huffman_decompress_all_opcodes has returned; frame_starts is declared
\* (holding whatever the stack held) and frame_starts[0] = 0.
MainScanStart ==
    /\ mpc = "huffman"
    /\ hpc = "done"
    /\ total_opcodes' = opcode_count
    /\ \E image \in StackImages : frame_starts' = [image EXCEPT ![1] = 0]
    /\ frame_count' = 0
    /\ scan_i' = 0
    /\ mpc' = "scan"
    /\ UNCHANGED <<hvars, dec, twin, vga_id, calls, frame, vga>>

\* i < total_opcodes && frame_count < FRAME_COUNT
ScanGuard == scan_i < total_opcodes /\ frame_count < FRAME_COUNT

\* Variant: the scan records the index of the terminator itself.
MainScanStep_AtMarker ==
    /\ mpc = "scan"
    /\ ScanGuard
    /\ IF opcodes_buffer[scan_i + 1] = 255
       THEN /\ frame_count' = frame_count + 1
            /\ frame_starts' = [frame_starts EXCEPT ![frame_count + 2] = scan_i]
       ELSE UNCHANGED <<frame_count, frame_starts>>
    /\ scan_i' = scan_i + 1
    /\ UNCHANGED <<hvars, dec, twin, vga_id, calls, total_opcodes, frame, vga, mpc>>

\* One iteration of the boundary scan.
MainScanStep ==
    /\ mpc = "scan"
    /\ ScanGuard
    /\ IF opcodes_buffer[scan_i + 1] = 255
       THEN /\ frame_count' = frame_count + 1
            /\ frame_starts' = [frame_starts EXCEPT ![frame_count + 2] = scan_i + 1]
       ELSE UNCHANGED <<frame_count, frame_starts>>
    /\ scan_i' = scan_i + 1
    /\ UNCHANGED <<hvars, dec, twin, vga_id, calls, total_opcodes, frame, vga, mpc>>

MainScanEnd ==
    /\ mpc = "scan"
    /\ ~ScanGuard
    /\ frame' = 0
    /\ mpc' = "frames"
    /\ UNCHANGED <<hvars, dec, twin, vga_id, calls, total_opcodes, frame_starts,
                   frame_count, scan_i, vga>>

\* opcodes_buffer[x]: a stored opcode, or the 0 of the static array.
OpcodeAt(x) == IF x < opcode_count THEN opcodes_buffer[x + 1] ELSE 0

\* The opcodes the pointer &opcodes_buffer[start] gives access to, index by
\* index, as far as len reaches.
SegmentAt(start, len) == [j \in 1..len |-> OpcodeAt(start + j - 1)]

\* decompress_frame(frame, &opcodes_buffer[start], len) is called.
MainCallFrame ==
    /\ mpc = "frames"
    /\ frame < FRAME_COUNT
    /\ LET start == frame_starts[frame + 1]
           end   == frame_starts[frame + 2]
           len   == end - start
       IN /\ dec' = Call(frame, SegmentAt(start, len), len,
                         dec.frame_buffer, dec.prev_frame_buffer)
          /\ calls' = Append(calls, [frame_index |-> frame,
                                     opcodes |-> SegmentAt(start, len)])
    /\ mpc' = "in_frame"
    /\ UNCHANGED <<hvars, twin, vga_id, total_opcodes, frame_starts,
                   frame_count, scan_i, frame, vga>>

\* pack8_pixels keeps the low 4 bits of each pixel; the words written to
\* VGA_STREAM_DATA carry the pixels in order, 8 to a word.  The stream is
\* kept as its sequence of 4-bit pixels.
UploadStream(fb) == [k \in 1..FRAME_SIZE |-> fb[k] % 16]

\* Variant: vga_upload_frame issued before decompress_frame has returned.
MainUpload_BeforeReturn ==
    /\ mpc = "in_frame"
    /\ vga' = [ctrl |-> (frame * 16) + 1,
               upload_addr |-> (frame % 16) * 65536,
               uploads |-> Append(vga.uploads,
                                  [frame |-> frame,
                                   pixels |-> UploadStream(dec.frame_buffer)])]
    /\ frame' = frame + 1
    /\ mpc' = "frames"
    /\ UNCHANGED <<hvars, dec, twin, vga_id, calls, total_opcodes, frame_starts,
                   frame_count, scan_i>>

\* decompress_frame has returned: vga_upload_frame(frame) streams the frame
\* to the display, then the control register selects the frame.
MainUpload ==
    /\ mpc = "in_frame"
    /\ dec.pc = "done"
    /\ vga' = [ctrl |-> (frame * 16) + 1,
               upload_addr |-> (frame % 16) * 65536,
               uploads |-> Append(vga.uploads,
                                  [frame |-> frame,
                                   pixels |-> UploadStream(dec.frame_buffer)])]
    /\ frame' = frame + 1
    /\ mpc' = "frames"
    /\ UNCHANGED <<hvars, dec, twin, vga_id, calls, total_opcodes, frame_starts,
                   frame_count, scan_i>>

\* The decode loop is over: the animation starts at frame 0.
MainAnimateStart ==
    /\ mpc = "frames"
    /\ frame >= FRAME_COUNT
    /\ frame' = 0
    /\ mpc' = "animate"
    /\ UNCHANGED <<hvars, dec, twin, vga_id, calls, total_opcodes, frame_starts,
                   frame_count, scan_i, vga>>

\* One round of the animation: show the frame, wait, go to the next.
MainAnimate ==
    /\ mpc = "animate"
    /\ vga' = [vga EXCEPT !.ctrl = (frame * 16) + 1]
    /\ frame' = IF frame + 1 < FRAME_COUNT THEN frame + 1 ELSE 0
    /\ UNCHANGED <<hvars, dec, twin, vga_id, calls, total_opcodes, frame_starts,
                   frame_count, scan_i, mpc>>

MainNext ==
    \/ MainReject
    \/ MainStart
    \/ CallDecode
    \/ DecodeBit
    \/ LoopExit
    \/ MainScanStart
    \/ MainScanStep
    \/ MainScanEnd
    \/ MainCallFrame
    \/ FrameEnter
    \/ FrameBaselineStep
    \/ FrameDeltaStep
    \/ FrameLoopEnd
    \/ FrameFill
    \/ FrameSave
    \/ MainUpload
    \/ MainAnimateStart
    \/ MainAnimate

SpecMain == MainInit /\ [][MainNext]_vars

(***************************************************************************)
(* Properties of main                                                      *)
(***************************************************************************)
Markers == {k \in 1..Len(opcodes_buffer) : opcodes_buffer[k] = 255}

\* Exactly 11 terminators, none first or last.
ElevenInteriorMarkers ==
    /\ Cardinality(Markers) = FRAME_COUNT - 1
    /\ 1 \notin Markers
    /\ Len(opcodes_buffer) \notin Markers

ScanDone == mpc \in {"frames", "in_frame", "animate"}

\* frame_starts[k], k = 0..12.
FrameStart(k) == frame_starts[k + 1]

RECURSIVE Joined(_)
\* The opcodes of segments 0..k-1, one after the other.
Joined(k) ==
    IF k = 0 THEN <<>>
    ELSE Joined(k - 1) \o SubSeq(opcodes_buffer, FrameStart(k - 1) + 1, FrameStart(k))

\* C7 (as claimed): with exactly 11 interior markers the scan leaves 12
\* segments frame_starts[k] .. frame_starts[k+1], k = 0..11, in order and
\* not overlapping, that together are the whole sequence of total_opcodes
\* opcodes.
C7_TwelveSegmentsCoverStream ==
    (ScanDone /\ ElevenInteriorMarkers) =>
        /\ FrameStart(0) = 0
        /\ FrameStart(FRAME_COUNT) = total_opcodes
        /\ \A k \in 0..(FRAME_COUNT - 1) : FrameStart(k) <= FrameStart(k + 1)
        /\ Joined(FRAME_COUNT) = opcodes_buffer

\* decompress_frame is running for a frame whose segment has no terminator.
InUnterminatedFrame ==
    /\ mpc = "in_frame"
    /\ frame_count < FRAME_COUNT
    /\ dec.frame_index >= frame_count

\* C8 (as claimed): with fewer than 12 terminators every segment without a
\* terminator is passed with length zero, frame 0 then comes out all zero and
\* a delta frame equal to its predecessor.
C8_UnterminatedSegmentsEmpty ==
    InUnterminatedFrame =>
        /\ dec.opcode_len = 0
        /\ dec.pc = "save" =>
              dec.frame_buffer =
                  IF dec.frame_index = 0 THEN ZeroFrame ELSE dec.prev_frame_buffer

\* The upload events so far, in order.
Uploads == vga.uploads

\* The highest frame index decompress_frame has completed in main, -1 if none.
LastReconstructed ==
    IF dec.pc = "idle" THEN -1
    ELSE IF dec.pc = "done" THEN dec.frame_index
    ELSE dec.frame_index - 1

\* C11 (as claimed): no frame is handed to the display before
\* decompress_frame has completed for frame 11.
C11_NoUploadBeforeLastFrame ==
    Uploads # <<>> => LastReconstructed = FRAME_COUNT - 1

\* C11 (amended): frame k is handed to the display only after
\* decompress_frame has completed for frame k, and what is streamed is the
\* frame that call left in frame_buffer.
C11_UploadAfterOwnFrame ==
    /\ \A j \in 1..Len(Uploads) : Uploads[j].frame <= LastReconstructed
    /\ (mpc = "frames" /\ Uploads # <<>>) =>
          /\ Uploads[Len(Uploads)].frame = dec.frame_index
          /\ Uploads[Len(Uploads)].pixels = dec.frame_buffer

\* C11 witness: frame 0, with painted pixels, has been uploaded while frames
\* 1..11 are still to be reconstructed.
C11_Witness ==
    /\ mpc = "frames"
    /\ Len(Uploads) = 1
    /\ Uploads[1].frame = 0
    /\ Pixel(Uploads[1].pixels, 0) = 5
    /\ LastReconstructed = 0

\* C12: in the decode pass decompress_frame is called and the frames are
\* uploaded in index order 0, 1, ..., 11, each once; at the start of
\* decompress_frame(k), k >= 1, prev_frame_buffer is the complete frame of
\* call k-1 (the one streamed to the display), and after every call
\* prev_frame_buffer equals frame_buffer.
C12_FramesInOrder ==
    /\ Len(Uploads) <= FRAME_COUNT
    /\ \A j \in 1..Len(Uploads) : Uploads[j].frame = j - 1
    /\ mpc = "in_frame" =>
          /\ dec.frame_index = frame
          /\ Len(Uploads) = frame
    /\ mpc = "frames" => Len(Uploads) = frame
    /\ mpc = "animate" => Len(Uploads) = FRAME_COUNT
    /\ (mpc = "in_frame" /\ dec.pc \in {"entry", "loop", "fill", "save"}
          /\ dec.frame_index >= 1) =>
          dec.prev_frame_buffer = Uploads[dec.frame_index].pixels
    /\ (mpc \in {"frames", "in_frame", "animate"} /\ dec.pc \in {"idle", "done"}) =>
          dec.prev_frame_buffer = dec.frame_buffer

\* C12 witness: all 12 frames went out in order and the last call started
\* from a previous frame with painted pixels.
C12_Witness ==
    /\ mpc = "animate"
    /\ Len(Uploads) = FRAME_COUNT
    /\ Uploads[FRAME_COUNT].frame = FRAME_COUNT - 1
    /\ Pixel(Uploads[FRAME_COUNT - 1].pixels, 0) = 5
    /\ dec.prev_frame_buffer = dec.frame_buffer

\* The position (1 = first opcode) of the k-th terminator, k >= 1.
Marker(k) == CHOOSE m \in Markers : Cardinality({x \in Markers : x <= m}) = k

\* The opcodes from just after the k-th terminator (from the first opcode
\* for k = 0) up to and including the (k+1)-th terminator.
SliceStart(k) == IF k = 0 THEN 1 ELSE Marker(k) + 1
Slice(k) == SubSeq(opcodes_buffer, SliceStart(k), Marker(k + 1))

RECURSIVE ExpectedFrame(_)
\* Frame k as the slices 0..k alone determine it.
ExpectedFrame(k) ==
    IF k = 0 THEN BaselineFrame(UpToTerminator(Slice(0)))
    ELSE DeltaFrame(ExpectedFrame(k - 1), UpToTerminator(Slice(k)),
                    Len(UpToTerminator(Slice(k))))

TwelveMarkers == Cardinality(Markers) >= FRAME_COUNT

\* C17: with at least 12 terminators decoded, the scan leaves the segments
\* contiguous and in order, segment k passed to decompress_frame is the
\* opcodes after the k-th terminator up to and including the (k+1)-th, and
\* the 12 frames sent out are those the opcodes up to the 12th terminator
\* determine, whatever follows it.
C17_SegmentsBetweenTerminators ==
    (ScanDone /\ TwelveMarkers) =>
        /\ FrameStart(0) = 0
        /\ \A k \in 0..(FRAME_COUNT - 1) :
              /\ FrameStart(k) = SliceStart(k) - 1
              /\ FrameStart(k + 1) = Marker(k + 1)
              /\ FrameStart(k) < FrameStart(k + 1)
        /\ Joined(FRAME_COUNT) = SubSeq(opcodes_buffer, 1, Marker(FRAME_COUNT))
        /\ (mpc = "in_frame" /\ dec.pc # "idle") =>
              /\ dec.opcodes = Slice(dec.frame_index)
              /\ dec.opcode_len = Len(Slice(dec.frame_index))
        /\ mpc = "animate" =>
              \A k \in 0..(FRAME_COUNT - 1) :
                  Uploads[k + 1].pixels = ExpectedFrame(k)

\* C17 witness: 13 terminators and more opcodes after the last were decoded,
\* and all 12 frames, with painted pixels, have been sent out.
C17_Witness ==
    /\ mpc = "animate"
    /\ Cardinality(Markers) = FRAME_COUNT + 1
    /\ Len(opcodes_buffer) > Marker(FRAME_COUNT + 1)
    /\ Len(Uploads) = FRAME_COUNT
    /\ Pixel(Uploads[FRAME_COUNT].pixels, 3) = 5

(***************************************************************************)
(* A sequence of calls of decompress_frame from the static buffers         *)
(***************************************************************************)
\* Segments of the calls: colour 15, long and short repeats, skips, a
\* terminator in the middle, opcodes outside the grammar, the empty segment.
CallSegments(frame_index) ==
    IF frame_index = 0
    THEN {<<>>, <<15, 63, 18, 240, 5, 35>>, <<9, 34, 255, 15, 63>>}
    ELSE {<<5, 18, 34>>, <<15, 79, 95, 3, 34, 255, 79>>,
          <<240, 63, 8, 47, 112>>}

CallsInit ==
    /\ dec = StaticBuffers
    /\ twin = NotCalled
    /\ huffman_table = <<>>
    /\ huffman_compressed_data = <<>>
    /\ HUFFMAN_BITSTREAM_LEN = 0
    /\ bs = bitstream_init
    /\ bit_reads = 0
    /\ current_code = 0
    /\ code_len = 0
    /\ opcodes_buffer = <<>>
    /\ opcode_count = 0
    /\ bits_read = 0
    /\ hpc = "idle"
    /\ MainIdle

\* decompress_frame is called with some frame index and segment, on the
\* buffers as the calls before left them.
CallsCall ==
    /\ dec.pc \in {"idle", "done"}
    /\ Len(calls) < MaxCalls
    /\ \E frame_index \in FrameIndexes :
         \E opcodes \in CallSegments(frame_index) :
            /\ dec' = Call(frame_index, opcodes, Len(opcodes),
                           dec.frame_buffer, dec.prev_frame_buffer)
            /\ calls' = Append(calls, [frame_index |-> frame_index,
                                       opcodes |-> opcodes])
    /\ UNCHANGED <<hvars, twin, vga_id, total_opcodes, frame_starts,
                   frame_count, scan_i, frame, vga, mpc>>

CallsNext ==
    \/ CallsCall
    \/ FrameEnter
    \/ FrameBaselineStep
    \/ FrameDeltaStep
    \/ FrameLoopEnd
    \/ FrameFill
    \/ FrameSave

SpecCalls == CallsInit /\ [][CallsNext]_vars

IsColour(v) == v \in 0..15

\* C13: from the zero-initialised buffers, during and after any sequence of
\* calls of decompress_frame every element of frame_buffer and of
\* prev_frame_buffer is a colour index in 0..15.
C13_PixelsAreColours ==
    /\ \A x \in Pixels : IsColour(Pixel(dec.frame_buffer, x))
    /\ \A x \in Pixels : IsColour(Pixel(dec.prev_frame_buffer, x))

\* C13 witness: after two calls the saved frame holds colour 15 from a long
\* repeat and another colour from the second call.
C13_Witness ==
    /\ Len(calls) = 2
    /\ dec.pc = "done"
    /\ calls[1].frame_index = 0
    /\ calls[2].frame_index # 0
    /\ Pixel(dec.prev_frame_buffer, 255) = 15
    /\ Pixel(dec.prev_frame_buffer, 3) = 5

====
